---- MODULE Spec2Model ----
(***************************************************************************)
(* Model of routes/stream.js: the GET /stream/:streams route of the        *)
(* eventstreams service.  One worker process, one IntervalCounter, any     *)
(* number of HTTP connections.  The route callback is a plain synchronous  *)
(* function, so one run of it is one atomic step; the only other steps are *)
(* the arrival of a request, the 'close' event of a response and the       *)
(* periodic report of the IntervalCounter.                                 *)
(***************************************************************************)
EXTENDS Integers, Sequences, FiniteSets, TLC

(***************************************************************************)
(* Bounds of the model.                                                    *)
(***************************************************************************)
\* Number of HTTP connections the worker sees.
MaxConns == 2
\* Number of times the transport emits 'close' on one response.
MaxCloseEmits == 2
\* Largest configured client_ip_connection_limit.
MaxLimit == 2

Conns == 1..MaxConns

(***************************************************************************)
(* JavaScript values.                                                      *)
(***************************************************************************)
Undefined == [t |-> "undefined"]
NaN == [t |-> "NaN"]
Infinity == [t |-> "Infinity"]
Str(s) == [t |-> "string", s |-> s]
Num(n) == [t |-> "number", n |-> n]

\* ToBoolean on the values the handler tests: undefined and '' are falsy,
\* every other string is truthy.
Truthy(v) == v.t = "string" /\ v.s # ""

\* Number(v) for the since values: '' is 0, a decimal literal is its value,
\* 'Infinity' is Infinity, any other text is NaN; Number(undefined) is NaN.
ToNumber(v) ==
    IF v.t # "string" THEN (IF v.t = "undefined" THEN NaN ELSE v)
    ELSE CASE v.s = "" -> Num(0)
           [] v.s = "1600000000" -> Num(1600000000)
           [] v.s = "Infinity" -> Infinity
           [] OTHER -> NaN

\* The global isNaN(v): coerces with Number first.
IsNaN(v) == ToNumber(v) = NaN

\* Date.parse(v): epoch milliseconds of an ISO-8601 text, NaN otherwise.
DateParse(v) ==
    IF v.t = "string" /\ v.s = "1970-01-19T12:26:40Z" THEN Num(1600000000) ELSE NaN

(***************************************************************************)
(* Configuration: app.conf.streams.                                        *)
(***************************************************************************)
\* The stream catalog, stream name -> topics.
ConfStreams == [a |-> <<"topic.a">>, b |-> <<"topic.a", "topic.b">>]

\* app.conf.streams is a plain object: these names are found on it by the
\* in operator through Object.prototype although they are no streams.
ObjectPrototypeProps == {"constructor"}

\* stream in app.conf.streams
InConfStreams(stream) ==
    stream \in DOMAIN ConfStreams \/ stream \in ObjectPrototypeProps

\* app.conf.streams[stream].topics; an inherited property has no topics
\* field, and _.flatMap keeps the undefined as one element.
TopicsOf(stream) ==
    IF stream \in DOMAIN ConfStreams THEN ConfStreams[stream] ELSE <<"undefined">>

(***************************************************************************)
(* Requests.  The :streams path parameter is a text; it is modelled as its *)
(* sequence of tokens, a stream name or the delimiter ",", never two names *)
(* in a row.                                                               *)
(***************************************************************************)
RECURSIVE SplitFrom(_, _, _)
SplitFrom(tokens, cur, acc) ==
    IF tokens = <<>> THEN Append(acc, cur)
    ELSE IF Head(tokens) = "," THEN SplitFrom(Tail(tokens), "", Append(acc, cur))
    ELSE SplitFrom(Tail(tokens), Head(tokens), acc)

\* req.params.streams.split(','): the names between the delimiters, the
\* empty name where nothing stands between two of them.
Split(tokens) == SplitFrom(tokens, "", <<>>)

RECURSIVE Join(_)
\* names.join(','), as tokens again.
Join(names) ==
    IF names = <<>> THEN <<>>
    ELSE (IF Head(names) = "" THEN <<>> ELSE <<Head(names)>>)
         \o (IF Len(names) > 1 THEN <<",">> \o Join(Tail(names)) ELSE <<>>)

(***************************************************************************)
(* IntervalCounter (lib/eventstreams-util): key -> count, with a periodic  *)
(* report of every key to the metrics callback.                            *)
(***************************************************************************)
\* `${streamConnectionMetricPrefix}.${stream}`
StreamKey(stream) == <<"connections.stream", stream>>
\* One client key for all clients: the prefix without the address.
ClientKeyShared(ip) == <<"connections.client_ip", "">>

\* `${clientConnectionMetricPrefix}.${req.headers['x-client-ip']}`
ClientKey(ip) == <<"connections.client_ip", ip>>

\* intervalCounter.get(key) || 0
Get(ctr, key) == IF key \in DOMAIN ctr THEN ctr[key] ELSE 0

\* intervalCounter.increment(key)
Increment(ctr, key) ==
    IF key \in DOMAIN ctr THEN [ctr EXCEPT ![key] = @ + 1] ELSE ctr @@ (key :> 1)

\* intervalCounter.decrement(key): never below zero.
Decrement(ctr, key) ==
    IF key \in DOMAIN ctr THEN [ctr EXCEPT ![key] = IF @ > 0 THEN @ - 1 ELSE 0]
    ELSE ctr @@ (key :> 0)

RECURSIVE IncrementStreams(_, _)
\* streams.forEach(stream => intervalCounter.increment(...))
IncrementStreams(ctr, streams) ==
    IF streams = <<>> THEN ctr
    ELSE IncrementStreams(Increment(ctr, StreamKey(Head(streams))), Tail(streams))

RECURSIVE DecrementStreams(_, _)
\* streams.forEach(stream => intervalCounter.decrement(...))
DecrementStreams(ctr, streams) ==
    IF streams = <<>> THEN ctr
    ELSE DecrementStreams(Decrement(ctr, StreamKey(Head(streams))), Tail(streams))

(***************************************************************************)
(* The route callback, router.get('/stream/:streams', (req, res) => ...),  *)
(* as functions of the request req = [clientIp, streams, since,            *)
(* contentType], the counters ctr and the configured limit lim.            *)
(***************************************************************************)
HTTPError(status, type, detail) == [status |-> status, type |-> type, detail |-> detail]
\* No error was thrown.
NoError == HTTPError(200, "none", <<>>)

\* let clientConnectionMetric; (still undefined)
NoMetric == <<>>

\* if (app.conf.client_ip_connection_limit): an unset limit and the limit 0
\* are both falsy.
LimitConfigured(lim) == lim # 0

\* As LimitReached, with > for >=.
LimitReachedStrict(count, lim) == count > lim

\* clientConnectionCount >= app.conf.client_ip_connection_limit
LimitReached(count, lim) == count >= lim

\* A clientConnectionMetric assigned from the header whether or not a limit
\* is configured.
ClientConnectionMetricUnconditional(req, lim) ==
    IF Truthy(req.clientIp) THEN ClientKey(req.clientIp.s) ELSE NoMetric

\* The value of clientConnectionMetric once the client checks are through.
ClientConnectionMetric(req, lim) ==
    IF LimitConfigured(lim) /\ Truthy(req.clientIp)
    THEN ClientKey(req.clientIp.s) ELSE NoMetric

\* As ClientCheck, with the count read under the key prefix alone, not the
\* key of the client.
ClientCheckWrongKey(req, ctr, lim) ==
    IF ~LimitConfigured(lim) THEN NoError
    ELSE IF ~Truthy(req.clientIp) THEN HTTPError(400, "bad_request", <<>>)
    ELSE IF LimitReached(Get(ctr, ClientKey("")), lim)
         THEN HTTPError(429, "too_many_requests", <<>>)
    ELSE NoError

\* The X-Client-IP and connection limit checks.
ClientCheck(req, ctr, lim) ==
    IF ~LimitConfigured(lim) THEN NoError
    ELSE IF ~Truthy(req.clientIp) THEN HTTPError(400, "bad_request", <<>>)
    ELSE IF LimitReached(Get(ctr, ClientConnectionMetric(req, lim)), lim)
         THEN HTTPError(429, "too_many_requests", <<>>)
    ELSE NoError

\* streams.filter(stream => !(stream in app.conf.streams))
InvalidStreams(streams) == SelectSeq(streams, LAMBDA stream : ~InConfStreams(stream))

\* The check that all requested streams are available.
StreamsCheck(req) ==
    IF Len(InvalidStreams(Split(req.streams))) > 0
    THEN HTTPError(400, "not_found", Join(InvalidStreams(Split(req.streams))))
    ELSE NoError

RECURSIVE Topics(_)
\* _.flatMap(streams, stream => app.conf.streams[stream].topics)
Topics(streams) ==
    IF streams = <<>> THEN <<>> ELSE TopicsOf(Head(streams)) \o Topics(Tail(streams))

\* atTimestamp after the attempt to parse a since that is no number.
AtTimestamp(since) ==
    IF Truthy(since) /\ IsNaN(since) THEN DateParse(since) ELSE since

\* atTimestamp !== undefined && isNaN(atTimestamp)
TimestampCheck(req) ==
    IF AtTimestamp(req.since) # Undefined /\ IsNaN(AtTimestamp(req.since))
    THEN HTTPError(400, "invalid_timestamp", <<req.since.s>>)
    ELSE NoError

\* As Validate, with the stream names checked before the client.
ValidateStreamsFirst(req, ctr, lim) ==
    IF StreamsCheck(req) # NoError THEN StreamsCheck(req)
    ELSE IF ClientCheck(req, ctr, lim) # NoError THEN ClientCheck(req, ctr, lim)
    ELSE TimestampCheck(req)

\* The first HTTPError the callback throws, NoError when it throws none.
Validate(req, ctr, lim) ==
    IF ClientCheck(req, ctr, lim) # NoError THEN ClientCheck(req, ctr, lim)
    ELSE IF StreamsCheck(req) # NoError THEN StreamsCheck(req)
    ELSE TimestampCheck(req)

\* The increments of an admitted request.
Admit(ctr, streams, metric) ==
    IF metric # NoMetric
    THEN Increment(IncrementStreams(ctr, streams), metric)
    ELSE IncrementStreams(ctr, streams)

\* As CountersAfter, with the increments moved above the check of since.
CountersAfterEarlyIncrement(error, ctr, streams, metric) ==
    IF error.type \in {"none", "invalid_timestamp"}
    THEN Admit(ctr, streams, metric) ELSE ctr

\* The counters when the callback returns or throws: every throw comes
\* before the first increment.
CountersAfter(error, ctr, streams, metric) ==
    IF error # NoError THEN ctr ELSE Admit(ctr, streams, metric)

\* The listener of the response's 'close' event.
OnClose(ctr, streams, metric) ==
    IF metric # NoMetric
    THEN Decrement(DecrementStreams(ctr, streams), metric)
    ELSE DecrementStreams(ctr, streams)

\* responseHeaders['content-type'].startsWith('application/json')
DisableSSEFormatting(contentType) ==
    contentType.t = "string"
    /\ contentType.s \in {"application/json", "application/json; charset=utf-8"}

\* No call of kafkaSse.
NoHandoff ==
    [called |-> FALSE, topics |-> <<>>, allowedTopics |-> <<>>,
     atTimestamp |-> Undefined, disableSSEFormatting |-> FALSE]

\* kafkaSse(req, res, topics, {allowedTopics: topics, ...}, atTimestamp)
KafkaSse(req) ==
    [called |-> TRUE, topics |-> Topics(Split(req.streams)),
     allowedTopics |-> Topics(Split(req.streams)),
     atTimestamp |-> AtTimestamp(req.since),
     disableSSEFormatting |-> DisableSSEFormatting(req.contentType)]

\* A callback that hands the request to kafkaSse before it looks at since.
HandoffBeforeTimestampCheck(error, req) ==
    IF error # NoError /\ error.type # "invalid_timestamp" THEN NoHandoff ELSE KafkaSse(req)

\* What the run of the callback hands to kafkaSse: a throw leaves the
\* callback before the call of line 139.
Handoff(error, req) == IF error # NoError THEN NoHandoff ELSE KafkaSse(req)

(***************************************************************************)
(* State.                                                                  *)
(***************************************************************************)
VARIABLES
    client_ip_connection_limit,  \* app.conf.client_ip_connection_limit, 0 when unset
    intervalCounter,   \* the counts of intervalCounter, key -> count
    reported,   \* what the latest step gave to app.metrics.timing
    conn,       \* per connection: position, closure of the route callback,
                \* 'close' events emitted and runs of the close listener
    last        \* what the latest step did as a run of the route callback:
                \* request, error thrown, call of kafkaSse

vars == <<client_ip_connection_limit, intervalCounter, reported, conn, last>>

NoConn ==
    [pc |-> "none", streams |-> <<>>, clientConnectionMetric |-> NoMetric,
     listening |-> FALSE, emits |-> 0, releases |-> 0]

NoRequest ==
    [clientIp |-> Undefined, streams |-> <<>>, since |-> Undefined,
     contentType |-> Undefined]

\* The latest step was no run of the route callback.
NoRun == [conn |-> 0, req |-> NoRequest, error |-> NoError, handoff |-> NoHandoff]

\* The latest step reported nothing.
NoReport == <<>>

Init ==
    /\ client_ip_connection_limit \in 0..MaxLimit
    /\ intervalCounter = <<>>
    /\ reported = NoReport
    /\ conn = [c \in Conns |-> NoConn]
    /\ last = NoRun

\* One run of the route callback, for the request req of a new connection c;
\* connections are numbered in the order in which their requests reach the
\* callback.  closed: the transport has emitted 'close' on the response
\* before the callback ran, when no listener was registered yet.
Handle(c, req, closed) ==
    /\ conn[c].pc = "none"
    /\ \A d \in Conns : d < c => conn[d].pc # "none"
    /\ LET error == Validate(req, intervalCounter, client_ip_connection_limit)
           streams == Split(req.streams)
           metric == ClientConnectionMetric(req, client_ip_connection_limit)
           emits == IF closed THEN 1 ELSE 0
       IN IF error # NoError
          THEN /\ conn' = [conn EXCEPT ![c].pc = "rejected", ![c].emits = emits]
               /\ last' = [conn |-> c, req |-> req, error |-> error,
                           handoff |-> Handoff(error, req)]
          ELSE /\ conn' = [conn EXCEPT ![c].pc = "streaming",
                                       ![c].streams = streams,
                                       ![c].clientConnectionMetric = metric,
                                       ![c].listening = TRUE,
                                       ![c].emits = emits]
               /\ last' = [conn |-> c, req |-> req, error |-> NoError,
                           handoff |-> Handoff(NoError, req)]
    /\ intervalCounter' =
           CountersAfter(Validate(req, intervalCounter, client_ip_connection_limit),
                         intervalCounter, Split(req.streams),
                         ClientConnectionMetric(req, client_ip_connection_limit))
    /\ reported' = NoReport
    /\ UNCHANGED client_ip_connection_limit

\* The transport emits 'close' on the response of connection c, whose
\* listener the route callback has registered: the listener runs.
EmitClose(c) ==
    /\ conn[c].listening
    /\ conn[c].emits < MaxCloseEmits
    /\ intervalCounter' = OnClose(intervalCounter, conn[c].streams, conn[c].clientConnectionMetric)
    /\ conn' = [conn EXCEPT ![c].emits = @ + 1, ![c].releases = @ + 1]
    /\ last' = NoRun
    /\ reported' = NoReport
    /\ UNCHANGED client_ip_connection_limit

\* An interval timer that reports every key and then starts the counts anew.
FlushResetting ==
    /\ reported' = intervalCounter
    /\ intervalCounter' = [key \in DOMAIN intervalCounter |-> 0]
    /\ last' = NoRun
    /\ UNCHANGED <<client_ip_connection_limit, conn>>

\* The interval timer of the IntervalCounter: every key is reported with
\* its count, the counts stay.
Flush ==
    /\ reported' = intervalCounter
    /\ last' = NoRun
    /\ UNCHANGED <<client_ip_connection_limit, intervalCounter, conn>>

(***************************************************************************)
(* Inputs.                                                                 *)
(***************************************************************************)
ClientIps == {"10.0.0.1", "10.0.0.2"}

\* The requests of the connection lifecycle: one of each outcome of the
\* validation, stream lists with a repeated name and with two names.
Requests ==
    [clientIp : {Undefined} \cup {Str(ip) : ip \in ClientIps},
     streams : {<<"a", ",", "a">>, <<"a", ",", "b">>, <<"x">>},
     since : {Undefined, Str("not-a-real-date")},
     contentType : {Str("text/event-stream")}]

Next ==
    \/ \E c \in Conns : \E req \in Requests : \E closed \in BOOLEAN : Handle(c, req, closed)
    \/ \E c \in Conns : EmitClose(c)
    \/ Flush

Spec == Init /\ [][Next]_vars

\* The requests of the validation: X-Client-IP absent, empty or an address;
\* stream lists with known, unknown, repeated, inherited and empty names;
\* since absent, empty, a milliseconds text, a date, no date at all, a
\* non-finite number; Content-Type absent or JSON.
AllRequests ==
    [clientIp : {Undefined, Str(""), Str("10.0.0.1")},
     streams : {<<"a", ",", "a">>, <<"a", ",", "b">>, <<"constructor">>,
                <<"y", ",", "a", ",", "x">>, <<"a", ",">>},
     since : {Undefined, Str(""), Str("1600000000"), Str("1970-01-19T12:26:40Z"),
              Str("not-a-real-date"), Str("Infinity")},
     contentType : {Undefined, Str("application/json")}]

\* The route callback on every request, while the admitted connections stay
\* open.
NextRequests ==
    \E c \in Conns : \E req \in AllRequests : Handle(c, req, FALSE)

SpecRequests == Init /\ [][NextRequests]_vars

(***************************************************************************)
(* Bookkeeping of the claims: the calls of increment and decrement that a  *)
(* connection has made on a key.                                           *)
(***************************************************************************)
Keys ==
    {StreamKey(name) : name \in {"a", "b", "x", "y", "", "constructor"}}
    \cup {ClientKey(ip) : ip \in ClientIps}

\* How often the admission of a request for streams and metric names key.
Multiplicity(key, streams, metric) ==
    Cardinality({i \in DOMAIN streams : StreamKey(streams[i]) = key})
    + (IF metric = key THEN 1 ELSE 0)

\* Calls of increment(key) made for connection c.
IncrementsOf(c, key) ==
    IF conn[c].pc = "streaming"
    THEN Multiplicity(key, conn[c].streams, conn[c].clientConnectionMetric) ELSE 0

\* Calls of decrement(key) made for connection c.
DecrementsOf(c, key) ==
    conn[c].releases * Multiplicity(key, conn[c].streams, conn[c].clientConnectionMetric)

RECURSIVE SumOver(_, _, _)
SumOver(Op(_, _), cs, key) ==
    IF cs = {} THEN 0
    ELSE LET c == CHOOSE d \in cs : TRUE IN Op(c, key) + SumOver(Op, cs \ {c}, key)

\* The step is a run of the route callback for connection c.
Handled(c) == conn[c].pc = "none" /\ conn'[c].pc # "none"

\* C1: for any admitted connection, however often 'close' is emitted on its
\* response, no key is decremented more often than the admission of that
\* connection incremented it.
C1_NoDoubleDecrement ==
    \A c \in Conns : \A key \in Keys : DecrementsOf(c, key) <= IncrementsOf(c, key)

\* C2: every admitted connection is released on every exit path: once the
\* response of an admitted connection has closed, the decrements of its
\* counters have run, also when it had closed before the callback ran.
C2_ClosedIsReleased ==
    \A c \in Conns :
        (conn[c].pc = "streaming" /\ conn[c].emits >= 1) => conn[c].releases >= 1

\* C3: a run of the route callback that rejects the request leaves every
\* counter as it was and registers no close listener.
C3_RejectionLeavesCounters ==
    [][\A c \in Conns :
          (Handled(c) /\ conn'[c].pc = "rejected")
          => /\ intervalCounter' = intervalCounter
             /\ \A key \in Keys : Get(intervalCounter', key) = Get(intervalCounter, key)
             /\ ~conn'[c].listening]_vars

\* A request was rejected for its since value, the last check before the
\* increments, while counters of live connections were raised.
C3_Witness ==
    /\ last.conn # 0
    /\ last.error.type = "invalid_timestamp"
    /\ conn[last.conn].pc = "rejected"
    /\ Get(intervalCounter, StreamKey("a")) > 0
    /\ \E ip \in ClientIps : Get(intervalCounter, ClientKey(ip)) > 0

\* C4: in every reachable state every count is at least 0 and no key has
\* had more decrements than increments.
C4_CountsWithinIncrements ==
    \A key \in Keys :
        /\ Get(intervalCounter, key) >= 0
        /\ SumOver(DecrementsOf, Conns, key) <= SumOver(IncrementsOf, Conns, key)

\* The request carries a client identity.
HasIdentity(req) == req.clientIp.t = "string" /\ req.clientIp.s # ""

\* C5 as stated: for every configured limit L, the smallest included, a
\* request of a client whose counter reads L is rejected with 429
\* too_many_requests and the counter still reads L.
C5_AtLimitRejected ==
    [][\A c \in Conns :
          (/\ Handled(c)
           /\ HasIdentity(last'.req)
           /\ Get(intervalCounter, ClientKey(last'.req.clientIp.s)) = client_ip_connection_limit)
          => /\ last'.error.status = 429
             /\ last'.error.type = "too_many_requests"
             /\ Get(intervalCounter', ClientKey(last'.req.clientIp.s)) = client_ip_connection_limit]_vars

\* C5 as amended: for every configured limit L >= 1, a request of a client
\* whose counter reads L is rejected with 429 too_many_requests and the
\* counter still reads L.
C5_AtPositiveLimitRejected ==
    [][\A c \in Conns :
          (/\ Handled(c)
           /\ client_ip_connection_limit >= 1
           /\ HasIdentity(last'.req)
           /\ Get(intervalCounter, ClientKey(last'.req.clientIp.s)) = client_ip_connection_limit)
          => /\ last'.error.status = 429
             /\ last'.error.type = "too_many_requests"
             /\ Get(intervalCounter', ClientKey(last'.req.clientIp.s)) = client_ip_connection_limit]_vars

\* A client with limit live connections was refused one more.
C5_Witness ==
    /\ client_ip_connection_limit >= 1
    /\ last.conn # 0
    /\ last.error.type = "too_many_requests"
    /\ Get(intervalCounter, ClientKey(last.req.clientIp.s)) = client_ip_connection_limit
    /\ Cardinality({c \in Conns : /\ conn[c].pc = "streaming"
                                  /\ conn[c].releases = 0
                                  /\ conn[c].clientConnectionMetric
                                        = ClientKey(last.req.clientIp.s)}) = client_ip_connection_limit

\* C6 as stated: the limit check and the increment are not atomic, so of
\* two requests of one client that reach the callback one right after the
\* other, the second still passes the limit check that the first passed on
\* the count limit - 1, and the counter of the client exceeds the limit.
C6_ConcurrentAdmissionsBothPass ==
    [][\A c \in Conns :
          (/\ Handled(c)
           /\ client_ip_connection_limit >= 1
           /\ last.conn # 0
           /\ last.error = NoError
           /\ HasIdentity(last.req)
           /\ last'.req.clientIp = last.req.clientIp
           /\ Get(intervalCounter, ClientKey(last.req.clientIp.s)) = client_ip_connection_limit
           /\ StreamsCheck(last'.req) = NoError
           /\ TimestampCheck(last'.req) = NoError)
          => /\ last'.error = NoError
             /\ Get(intervalCounter', ClientKey(last.req.clientIp.s)) > client_ip_connection_limit]_vars

\* C6 as amended: the limit check and the increment belong to one run of the
\* route callback, which no other callback interleaves, so the counter of a
\* client never exceeds the configured limit.
C6_NeverOverLimit ==
    client_ip_connection_limit >= 1
    => \A ip \in ClientIps :
           Get(intervalCounter, ClientKey(ip)) <= client_ip_connection_limit

\* Two requests of one client on open connections with the limit 1: the
\* first is admitted and still streams, the second is refused.
C6_Witness ==
    /\ client_ip_connection_limit >= 1
    /\ last.conn # 0
    /\ last.error.type = "too_many_requests"
    /\ \E c \in Conns :
          /\ c < last.conn
          /\ conn[c].pc = "streaming"
          /\ conn[c].emits = 0
          /\ conn[c].clientConnectionMetric = ClientKey(last.req.clientIp.s)
    /\ conn[last.conn].emits = 0
    /\ Get(intervalCounter, ClientKey(last.req.clientIp.s)) = client_ip_connection_limit

\* The latest step ran the route callback.
Ran == last.conn # 0

\* The client checks let the request pass on the counters ctr.
ClientChecksPass(req, ctr) ==
    \/ client_ip_connection_limit = 0
    \/ /\ HasIdentity(req)
       /\ Get(ctr, ClientKey(req.clientIp.s)) < client_ip_connection_limit

\* C7: the checks run in the order X-Client-IP header, client limit, stream
\* names, since, and the first that fails decides the error: without the
\* header bad_request and at the limit too_many_requests whatever the
\* stream names and since are, not_found before invalid_timestamp.
C7_FirstFailingCheckDecides ==
    [][\A c \in Conns : Handled(c) =>
          LET req == last'.req
              type == last'.error.type
              streamsFail == InvalidStreams(Split(req.streams)) # <<>>
              sinceFails == TimestampCheck(req) # NoError
          IN /\ (client_ip_connection_limit # 0 /\ ~HasIdentity(req)) => type = "bad_request"
             /\ (/\ client_ip_connection_limit # 0
                 /\ HasIdentity(req)
                 /\ Get(intervalCounter, ClientKey(req.clientIp.s)) >= client_ip_connection_limit)
                => type = "too_many_requests"
             /\ (ClientChecksPass(req, intervalCounter) /\ streamsFail) => type = "not_found"
             /\ (ClientChecksPass(req, intervalCounter) /\ ~streamsFail /\ sinceFails)
                => type = "invalid_timestamp"
             /\ (ClientChecksPass(req, intervalCounter) /\ ~streamsFail /\ ~sinceFails)
                => type = "none"]_vars

\* A client at its limit was refused with too_many_requests although its
\* request also named an unknown stream and an unparseable since.
C7_Witness ==
    /\ Ran
    /\ last.error.type = "too_many_requests"
    /\ InvalidStreams(Split(last.req.streams)) # <<>>
    /\ TimestampCheck(last.req) # NoError

\* The requested names that are no entry of the catalog, in request order.
NotInCatalog(streams) == SelectSeq(streams, LAMBDA name : name \notin DOMAIN ConfStreams)

\* C8: a request that names a stream which is no entry of the catalog is
\* rejected with not_found (once the client checks let it pass), and the
\* detail names every requested name absent from the catalog and no other.
C8_UnknownStreamsRejected ==
    (/\ Ran
     /\ last.error.type \notin {"bad_request", "too_many_requests"}
     /\ NotInCatalog(Split(last.req.streams)) # <<>>)
    => /\ last.error.type = "not_found"
       /\ last.error.detail = Join(NotInCatalog(Split(last.req.streams)))

\* The value of a text that is a base-10 integer, NaN for any other text.
Base10Integer(v) ==
    IF v.t = "string" /\ v.s = "1600000000" THEN Num(1600000000) ELSE NaN

\* The value is a finite number.
Finite(v) == v.t = "number"

\* C9: a since that is present and that neither the integer parse nor the
\* date parse turns into a finite number is rejected with invalid_timestamp
\* carrying the raw value (in a request of catalog streams that the client
\* checks let pass), and kafkaSse is not called.
C9_UnparseableSinceRejected ==
    (/\ Ran
     /\ last.error.type \notin {"bad_request", "too_many_requests"}
     /\ NotInCatalog(Split(last.req.streams)) = <<>>
     /\ last.req.since # Undefined
     /\ ~Finite(Base10Integer(last.req.since))
     /\ ~Finite(DateParse(last.req.since)))
    => /\ last.error.type = "invalid_timestamp"
       /\ last.error.detail = <<last.req.since.s>>
       /\ ~last.handoff.called

\* C10: for an admitted request of catalog streams whose since is a base-10
\* integer, the atTimestamp given to kafkaSse is that integer as a number.
C10_IntegerSinceHandedAsNumber ==
    (/\ Ran
     /\ last.handoff.called
     /\ NotInCatalog(Split(last.req.streams)) = <<>>
     /\ Finite(Base10Integer(last.req.since)))
    => last.handoff.atTimestamp = Base10Integer(last.req.since)

RECURSIVE Range(_)
\* The set of the elements of a sequence.
Range(seq) == IF seq = <<>> THEN {} ELSE {Head(seq)} \cup Range(Tail(seq))

\* The union of the catalog topics of the requested streams.
TopicUnion(streams) ==
    UNION {Range(ConfStreams[name]) : name \in Range(streams) \cap DOMAIN ConfStreams}

\* The sequence holds no element twice.
NoDuplicates(seq) == Cardinality(Range(seq)) = Len(seq)

\* C11: for every admitted request (of catalog streams) the topics and the
\* allowedTopics given to kafkaSse are the union of the topics of the
\* requested streams, no topic more than once.
C11_TopicsAreDeduplicatedUnion ==
    (/\ Ran
     /\ last.handoff.called
     /\ NotInCatalog(Split(last.req.streams)) = <<>>)
    => /\ Range(last.handoff.topics) = TopicUnion(Split(last.req.streams))
       /\ Range(last.handoff.allowedTopics) = TopicUnion(Split(last.req.streams))
       /\ NoDuplicates(last.handoff.topics)
       /\ NoDuplicates(last.handoff.allowedTopics)

\* The connection has been admitted and its listener has not run.
Live(c) == conn[c].pc = "streaming" /\ conn[c].releases = 0

\* C12: a step of the interval timer (the only step that handles no request
\* and runs no close listener) reports every tracked key with its current
\* count and leaves every count as it was, so that the release of a connection
\* admitted before the report has the effect it would have had without it.
C12_FlushReportsAndKeepsCounts ==
    [][conn' = conn =>
          /\ reported' = intervalCounter
          /\ DOMAIN reported' = DOMAIN intervalCounter
          /\ intervalCounter' = intervalCounter
          /\ \A c \in Conns : Live(c) =>
                 OnClose(intervalCounter', conn[c].streams, conn[c].clientConnectionMetric)
                     = OnClose(intervalCounter, conn[c].streams, conn[c].clientConnectionMetric)]_vars

\* A report made while a connection is live: its keys are reported with
\* counts above zero and the counts are still there.
C12_Witness ==
    /\ reported # NoReport
    /\ reported = intervalCounter
    /\ \E c \in Conns :
          /\ Live(c)
          /\ conn[c].clientConnectionMetric # NoMetric
          /\ Get(reported, conn[c].clientConnectionMetric) > 0
          /\ \A i \in 1..Len(conn[c].streams) : Get(reported, StreamKey(conn[c].streams[i])) > 0

\* The live connections whose request named the stream.
LiveNaming(stream) == {c \in Conns : Live(c) /\ stream \in Range(conn[c].streams)}

\* The live connections admitted under the client identity.
LiveOfClient(ip) == {c \in Conns : Live(c) /\ conn[c].clientConnectionMetric = ClientKey(ip)}

\* C13: in every reachable state the count of each stream key is the number
\* of live connections whose request named the stream, and the count of each
\* client key is the number of live connections admitted under that identity.
C13_CountersEqualLiveConnections ==
    /\ \A stream \in DOMAIN ConfStreams :
           Get(intervalCounter, StreamKey(stream)) = Cardinality(LiveNaming(stream))
    /\ \A ip \in ClientIps :
           Get(intervalCounter, ClientKey(ip)) = Cardinality(LiveOfClient(ip))

\* The step runs the close listener of connection c for the first time, and
\* no 'close' was emitted on its response before.
FirstClose(c) ==
    /\ conn[c].pc = "streaming"
    /\ conn[c].emits = 0
    /\ conn'[c].releases = 1

\* C14: the admission of a connection raises every key by the number of times
\* the connection names it, and its release, when 'close' is emitted once,
\* lowers every key by that same number, whatever the other connections did
\* in between: the two together leave every count as it was.
C14_ReleaseUndoesAdmission ==
    [][\A c \in Conns : \A key \in Keys :
          /\ (Handled(c) /\ conn'[c].pc = "streaming") =>
                 Get(intervalCounter', key) = Get(intervalCounter, key)
                     + Multiplicity(key, conn'[c].streams, conn'[c].clientConnectionMetric)
          /\ FirstClose(c) =>
                 Get(intervalCounter', key) = Get(intervalCounter, key)
                     - Multiplicity(key, conn[c].streams, conn[c].clientConnectionMetric)]_vars

\* C15: a run of the callback calls kafkaSse exactly when it admits the
\* request, and then the four checks have passed on the counters it found,
\* every increment is applied and the close listener is registered; a run
\* that throws calls nothing; and the callback runs once per request, so an
\* admitted request is never rejected later and a rejected one never handed
\* off later.
C15_HandoffOnlyAfterAdmission ==
    [][\A c \in Conns :
          /\ Handled(c) =>
                 /\ last'.conn = c
                 /\ last'.handoff.called <=> conn'[c].pc = "streaming"
                 /\ last'.handoff.called <=> last'.error = NoError
                 /\ last'.handoff.called =>
                        /\ ClientChecksPass(last'.req, intervalCounter)
                        /\ InvalidStreams(Split(last'.req.streams)) = <<>>
                        /\ TimestampCheck(last'.req) = NoError
                        /\ conn'[c].listening
                        /\ \A key \in Keys :
                               Get(intervalCounter', key) = Get(intervalCounter, key)
                                   + Multiplicity(key, conn'[c].streams,
                                                  conn'[c].clientConnectionMetric)
          /\ conn[c].pc # "none" =>
                 /\ conn'[c].pc = conn[c].pc
                 /\ last'.conn # c
          /\ (last'.conn = c /\ last' # last) => Handled(c)]_vars

\* A request admitted after another was rejected: it is handed to kafkaSse
\* with its listener registered and its stream and client keys counted.
C15_Witness ==
    /\ Ran
    /\ last.handoff.called
    /\ conn[last.conn].pc = "streaming"
    /\ conn[last.conn].listening
    /\ conn[last.conn].clientConnectionMetric # NoMetric
    /\ Get(intervalCounter, conn[last.conn].clientConnectionMetric) > 0
    /\ \E d \in Conns : conn[d].pc = "rejected"

\* C16: without a configured client_ip_connection_limit no run of the
\* callback throws bad_request or too_many_requests, no connection holds a
\* client key, and increment and decrement are never called for a client key:
\* every key of the counter is a stream key.
C16_NoLimitNoClientAccounting ==
    client_ip_connection_limit = 0 =>
        /\ last.error.type \notin {"bad_request", "too_many_requests"}
        /\ \A c \in Conns : conn[c].clientConnectionMetric = NoMetric
        /\ \A key \in DOMAIN intervalCounter : key[1] = "connections.stream"
        /\ \A ip \in ClientIps : Get(intervalCounter, ClientKey(ip)) = 0

\* Without a limit: a request carrying X-Client-IP is admitted and counted
\* under its streams, after another connection was admitted and released.
C16_Witness ==
    /\ client_ip_connection_limit = 0
    /\ Ran
    /\ HasIdentity(last.req)
    /\ last.handoff.called
    /\ Get(intervalCounter, StreamKey("a")) > 0
    /\ \E d \in Conns : conn[d].pc = "streaming" /\ conn[d].releases > 0

\* The step handles a request sent under the client identity ip, or runs the
\* close listener of a connection admitted under it.
StepOfClient(ip) ==
    \E c \in Conns :
        \/ Handled(c) /\ last'.req.clientIp = Str(ip)
        \/ /\ conn[c].clientConnectionMetric = ClientKey(ip)
           /\ conn'[c].releases > conn[c].releases

\* C17: the limit check of a request is decided by the count of its own
\* client key alone, and a step for another identity (a request admitted or
\* rejected, a connection released) or for no identity changes neither the
\* count of the client's key nor what its limit check would answer.
C17_ClientLimitsIsolated ==
    [][/\ \A c \in Conns :
              (Handled(c) /\ client_ip_connection_limit # 0 /\ HasIdentity(last'.req)) =>
                  (last'.error.type = "too_many_requests"
                       <=> Get(intervalCounter, ClientKey(last'.req.clientIp.s))
                               >= client_ip_connection_limit)
       /\ \A ip \in ClientIps :
              ~StepOfClient(ip) =>
                  /\ Get(intervalCounter', ClientKey(ip)) = Get(intervalCounter, ClientKey(ip))
                  /\ \A req \in {r \in Requests : r.clientIp = Str(ip)} :
                         ClientCheck(req, intervalCounter', client_ip_connection_limit)
                             = ClientCheck(req, intervalCounter, client_ip_connection_limit)]_vars

\* A client is at its limit, and the request of another client has just been
\* admitted.
C17_Witness ==
    /\ client_ip_connection_limit # 0
    /\ Ran
    /\ last.handoff.called
    /\ \E ip \in ClientIps :
          /\ last.req.clientIp # Str(ip)
          /\ HasIdentity(last.req)
          /\ Get(intervalCounter, ClientKey(ip)) = client_ip_connection_limit

====
